---- MODULE Spec2Model ----
(***************************************************************************)
(* Model of src/app.py, the Streamlit "Backlink Overview" page.            *)
(*                                                                         *)
(* Streamlit re-executes the whole script on every interaction.  One run   *)
(* of the script is: the static page chrome (header, input, button,        *)
(* footer: lines 193-215 and 274-278, identical on every run and left out  *)
(* of `screen`), and the MAIN LOGIC block of lines 218-272, whose output   *)
(* is the sequence `screen`.                                               *)
(*                                                                         *)
(* Numbers: a percentage is kept in hundredths (3333 stands for 33.33), so *)
(* that rounding to 2 decimals is integer arithmetic.                      *)
(* JSON: an object is a function whose DOMAIN is the set of keys present;  *)
(* a scalar is a record [t |-> "int" | "str", v |-> ...]; Python's None is *)
(* the record None.                                                        *)
(***************************************************************************)
EXTENDS Integers, Sequences, FiniteSets, TLC

VARIABLES pc, domain, run_check, requests_sent, analyses, wire, bound, data, overview,
          countries_data, screen

vars == <<pc, domain, run_check, requests_sent, analyses, wire, bound, data, overview,
          countries_data, screen>>

(* ------------------------------ bounds -------------------------------- *)
MaxLen == 3
MaxBelowZero == 1
MaxCount == 2
MaxBacklinks == 2
MaxRuns == 2

(* ------------------------------ values -------------------------------- *)
None == [t |-> "null"]

IntV(n) == [t |-> "int", v |-> n]

StrV(s) == [t |-> "str", v |-> s]

Domains == {"", "example.com"}

Countries == {"US", "IN"}

SummaryKeys == {"target", "rank", "backlinks", "backlinks_spam_score",
                "broken_backlinks", "broken_pages", "crawled_pages",
                "external_links_count"}

SummaryValue(k) ==
    CASE k = "target" -> StrV("example.com")
      [] k = "rank" -> IntV(57)
      [] k = "backlinks" -> IntV(1234567)
      [] k = "backlinks_spam_score" -> IntV(12)
      [] k = "broken_backlinks" -> IntV(1500)
      [] k = "broken_pages" -> IntV(0)
      [] k = "crawled_pages" -> IntV(999)
      [] k = "external_links_count" -> IntV(1000)

Summaries == {[k \in S |-> SummaryValue(k)] : S \in SUBSET SummaryKeys}

FullSummary == [k \in SummaryKeys |-> SummaryValue(k)]

ListsOver(S, n) == UNION {[1..k -> S] : k \in 0..n}

CountryLists ==
    ListsOver([country : Countries, count : (-MaxBelowZero)..MaxCount], MaxLen)

SampleCountries ==
    <<[country |-> "US", count |-> 2], [country |-> "IN", count |-> 1]>>

FirstSeenValues == {"2023-05-01T00:00:00Z", "not-a-date"}

BacklinkEntries ==
    {[k \in {"domain_from", "url_from"} \cup P |->
        CASE k = "domain_from" -> StrV("a.com")
          [] k = "url_from" -> StrV("http://a.com/x")
          [] k = "dofollow" -> d
          [] k = "first_seen" -> StrV(f)] :
      P \in SUBSET {"dofollow", "first_seen"},
      d \in BOOLEAN, f \in FirstSeenValues}

BacklinkLists == ListsOver(BacklinkEntries, MaxBacklinks)

Body(P, s, c, b) ==
    [k \in P |-> CASE k = "summary" -> s
                   [] k = "top_countries" -> c
                   [] k = "latest_backlinks" -> b]

\* The decoded bodies the server is let to send: every subset of the summary
\* keys, every country list and every backlink list within the bounds.
Bodies ==
    {Body(P, s, SampleCountries, <<>>) :
        P \in SUBSET {"summary", "top_countries"}, s \in Summaries}
    \cup {Body({"summary", "top_countries"}, FullSummary, c, <<>>) :
            c \in CountryLists}
    \cup {Body({"summary", "top_countries", "latest_backlinks"},
               FullSummary, SampleCountries, b) : b \in BacklinkLists}

Statuses == {200, 300, 404, 503}

\* What can come back for the GET: a transport failure, or a response with
\* a status and a body that is JSON (decodable) or not.
Replies ==
    {[kind |-> k, status |-> 0, decodable |-> FALSE, body |-> <<>>] :
        k \in {"timeout", "connection_error"}}
    \cup {[kind |-> "response", status |-> s, decodable |-> FALSE,
           body |-> <<>>] : s \in Statuses}
    \cup {[kind |-> "response", status |-> 200, decodable |-> TRUE,
           body |-> b] : b \in Bodies}
    \cup {[kind |-> "response", status |-> s, decodable |-> TRUE,
           body |-> b] :
            s \in Statuses \ {200},
            b \in {Body({"summary", "top_countries"}, FullSummary,
                         SampleCountries, <<>>)}}

NoReply == [kind |-> "none", status |-> 0, decodable |-> FALSE, body |-> <<>>]

(* ----------------------------- exceptions ----------------------------- *)
Returned(v) == [raised |-> FALSE, value |-> v]

Raised(e) == [raised |-> TRUE, exc |-> e]

Exc(type, detail) == [type |-> type, detail |-> detail]

(* ------------------------------ FUNCTIONS ----------------------------- *)
\* dict.get(key, default)
Get(d, key, default) == IF key \in DOMAIN d THEN d[key] ELSE default

\* requests.Response.raise_for_status: raises for 400 <= status < 600
raise_for_status(reply) == reply.status >= 400 /\ reply.status < 600

\* Mutant: the status of the response is not checked.
fetch_without_status_check(reply) ==
    IF reply.kind # "response"
    THEN Raised(Exc("RequestException", reply.kind))
    ELSE IF ~reply.decodable
    THEN Raised(Exc("JSONDecodeError", reply.status))
    ELSE Returned(reply.body)

fetch_backlink_data(reply) ==
    IF reply.kind # "response"
    THEN Raised(Exc("RequestException", reply.kind))
    ELSE IF raise_for_status(reply)
    THEN Raised(Exc("HTTPError", reply.status))
    ELSE IF ~reply.decodable
    THEN Raised(Exc("JSONDecodeError", reply.status))
    ELSE Returned(reply.body)

\* Mutant: the domain is read under "domain", not "target".
extract_domain_key(api_response) ==
    LET summary == Get(api_response, "summary", <<>>) IN
    [domain |-> Get(summary, "domain", None),
     rank |-> Get(summary, "rank", None),
     backlinks |-> Get(summary, "backlinks", None),
     backlinks_spam_score |-> Get(summary, "backlinks_spam_score", None),
     broken_backlinks |-> Get(summary, "broken_backlinks", None),
     broken_pages |-> Get(summary, "broken_pages", None),
     crawled_pages |-> Get(summary, "crawled_pages", None),
     external_links_count |-> Get(summary, "external_links_count", None),
     top_countries |-> Get(api_response, "top_countries", <<>>)]

\* Mutant: the overview also counts the dofollow entries of latest_backlinks.
extract_with_dofollow_count(api_response) ==
    LET summary == Get(api_response, "summary", <<>>)
        links == Get(api_response, "latest_backlinks", <<>>)
    IN
    [domain |-> Get(summary, "target", None),
     rank |-> Get(summary, "rank", None),
     backlinks |-> Get(summary, "backlinks", None),
     backlinks_spam_score |-> Get(summary, "backlinks_spam_score", None),
     broken_backlinks |-> Get(summary, "broken_backlinks", None),
     broken_pages |-> Get(summary, "broken_pages", None),
     crawled_pages |-> Get(summary, "crawled_pages", None),
     external_links_count |-> Get(summary, "external_links_count", None),
     top_countries |-> Get(api_response, "top_countries", <<>>),
     dofollow_count |->
        Cardinality({j \in 1..Len(links) : Get(links[j], "dofollow", FALSE)})]

\* Mutant: the overview also carries the first_seen values of latest_backlinks.
extract_with_first_seen(api_response) ==
    LET summary == Get(api_response, "summary", <<>>)
        links == Get(api_response, "latest_backlinks", <<>>)
    IN
    [domain |-> Get(summary, "target", None),
     rank |-> Get(summary, "rank", None),
     backlinks |-> Get(summary, "backlinks", None),
     backlinks_spam_score |-> Get(summary, "backlinks_spam_score", None),
     broken_backlinks |-> Get(summary, "broken_backlinks", None),
     broken_pages |-> Get(summary, "broken_pages", None),
     crawled_pages |-> Get(summary, "crawled_pages", None),
     external_links_count |-> Get(summary, "external_links_count", None),
     top_countries |-> Get(api_response, "top_countries", <<>>),
     first_seen |->
        [j \in 1..Len(links) |-> Get(links[j], "first_seen", None)]]

extract_general_overview(api_response) ==
    LET summary == Get(api_response, "summary", <<>>) IN
    [domain |-> Get(summary, "target", None),
     rank |-> Get(summary, "rank", None),
     backlinks |-> Get(summary, "backlinks", None),
     backlinks_spam_score |-> Get(summary, "backlinks_spam_score", None),
     broken_backlinks |-> Get(summary, "broken_backlinks", None),
     broken_pages |-> Get(summary, "broken_pages", None),
     crawled_pages |-> Get(summary, "crawled_pages", None),
     external_links_count |-> Get(summary, "external_links_count", None),
     top_countries |-> Get(api_response, "top_countries", <<>>)]

RECURSIVE SumCounts(_)
SumCounts(items) ==
    IF items = <<>> THEN 0
    ELSE items[1].count + SumCounts(Tail(items))

\* n / d rounded to the nearest integer, ties to the even one (d # 0)
HalfEven(n, d) ==
    LET nn == IF d < 0 THEN -n ELSE n
        dd == IF d < 0 THEN -d ELSE d
        q == nn \div dd
        r == nn - q * dd
    IN IF 2 * r < dd THEN q
       ELSE IF 2 * r > dd THEN q + 1
       ELSE IF q % 2 = 0 THEN q ELSE q + 1

\* Mutant: the percentage is cut after 2 decimals instead of rounded.
Truncate2(count, total) == (count * 10000) \div total

\* Mutant: round(..., 0), the percentage rounded to a whole number.
Round0(count, total) == 100 * HalfEven(count * 100, total)

\* round((count / total) * 100, 2), in hundredths
Round2(count, total) == HalfEven(count * 10000, total)

\* Mutant: a zero total gives zero percentages instead of the empty list.
add_zero_percentages(top_countries) ==
    LET total == SumCounts(top_countries) IN
    [i \in 1..Len(top_countries) |->
        [Country |-> top_countries[i].country,
         Percentage |-> IF total = 0 THEN 0
                        ELSE Round2(top_countries[i].count, total)]]

add_country_percentages(top_countries) ==
    LET total == SumCounts(top_countries) IN
    IF total = 0 THEN <<>>
    ELSE [i \in 1..Len(top_countries) |->
            [Country |-> top_countries[i].country,
             Percentage |-> Round2(top_countries[i].count, total)]]

(* ------------------------------ rendering ----------------------------- *)
\* One step of the try block: it either emits an element or raises.
Emit(el) == [raised |-> FALSE, el |-> el]

\* The digit groups of format(n, ","): 1234567 is <<1, 234, 567>> (n >= 0)
RECURSIVE Thousands(_)
Thousands(n) ==
    IF n < 1000 THEN <<n>>
    ELSE Append(Thousands(n \div 1000), n % 1000)

\* f"{value:,}": None has no such format and raises TypeError
FormatComma(value) ==
    IF value.t = "int" THEN Returned(Thousands(value.v))
    ELSE Raised(Exc("TypeError", value.t))

Metric(label, value) == Emit([kind |-> "metric", label |-> label,
                              value |-> value])

\* k.metric(label, f"{value:,}")
MetricComma(label, value) ==
    LET text == FormatComma(value) IN
    IF text.raised THEN text ELSE Metric(label, text.value)

\* st.progress(x) with a float x: raises unless 0.0 <= x <= 1.0; here
\* x = percentage / 100 with the percentage in hundredths
Progress(percentage) ==
    IF percentage >= 0 /\ percentage <= 10000
    THEN Emit([kind |-> "progress", num |-> percentage, den |-> 10000])
    ELSE Raised(Exc("StreamlitAPIException", percentage))

\* Lines 227-245; st.columns only lays the cards out and emits nothing.
KpiCards(ov) ==
    << Emit([kind |-> "success", domain |-> ov.domain]),
       Emit([kind |-> "divider"]),
       Metric("Domain Rank", ov.rank),
       MetricComma("Total Backlinks", ov.backlinks),
       Metric("Spam Score", ov.backlinks_spam_score),
       MetricComma("Broken Backlinks", ov.broken_backlinks),
       MetricComma("Broken Pages", ov.broken_pages),
       MetricComma("Crawled Pages", ov.crawled_pages),
       MetricComma("External Links", ov.external_links_count),
       Emit([kind |-> "divider"]) >>

Distribution(cd) ==
    [j \in 1..(2 * Len(cd)) |->
        LET item == cd[(j + 1) \div 2] IN
        IF j % 2 = 1
        THEN Emit([kind |-> "write", country |-> item.Country,
                   percentage |-> item.Percentage])
        ELSE Progress(item.Percentage)]

CountriesSection(cd) ==
    IF cd # <<>>
    THEN << Emit([kind |-> "dataframe", rows |-> cd]),
            Emit([kind |-> "markdown", text |-> "Distribution"]) >>
         \o Distribution(cd)
    ELSE << Emit([kind |-> "info"]) >>

ErrorElement(e) == [kind |-> "error", prefix |-> "Failed to fetch data: ",
                    detail |-> e]

\* The elements emitted by the steps up to the first one that raises, and
\* then the st.error of the except clause.
Execute(steps) ==
    LET raising == {i \in 1..Len(steps) : steps[i].raised} IN
    IF raising = {}
    THEN [i \in 1..Len(steps) |-> steps[i].el]
    ELSE LET first == CHOOSE i \in raising : \A j \in raising : i <= j IN
         [i \in 1..first |->
            IF i < first THEN steps[i].el ELSE ErrorElement(steps[i].exc)]

\* Lines 223-272: the try block, run on what came back for the GET.
MainLogic(reply) ==
    LET fetched == fetch_backlink_data(reply) IN
    IF fetched.raised
    THEN [bound |-> {}, data |-> <<>>, overview |-> <<>>,
          countries_data |-> <<>>,
          screen |-> <<ErrorElement(fetched.exc)>>]
    ELSE LET d == fetched.value
             ov == extract_general_overview(d)
             kpi == KpiCards(ov)
             kpiRaises == \E i \in 1..Len(kpi) : kpi[i].raised
             cd == add_country_percentages(ov.top_countries)
         IN IF kpiRaises
            THEN [bound |-> {"data", "overview"}, data |-> d,
                  overview |-> ov, countries_data |-> <<>>,
                  screen |-> Execute(kpi)]
            ELSE [bound |-> {"data", "overview", "countries_data"},
                  data |-> d, overview |-> ov, countries_data |-> cd,
                  screen |-> Execute(kpi
                                \o <<Emit([kind |-> "subheader"])>>
                                \o CountriesSection(cd))]

(* ------------------------------- actions ------------------------------ *)
Init ==
    /\ pc = "idle"
    /\ domain = ""
    /\ run_check = FALSE
    /\ requests_sent = 0
    /\ analyses = 0
    /\ wire = NoReply
    /\ bound = {}
    /\ data = <<>>
    /\ overview = <<>>
    /\ countries_data = <<>>
    /\ screen = <<>>

\* A new run of the script starts from a fresh namespace and a fresh page,
\* with no reply on the wire.
FreshRun ==
    /\ wire' = NoReply
    /\ bound' = {}
    /\ data' = <<>>
    /\ overview' = <<>>
    /\ countries_data' = <<>>

\* Mutant: after the first GET the reply is cached and no GET is sent.
SendGetUnlessCached ==
    requests_sent' = IF requests_sent > 0 THEN requests_sent
                     ELSE requests_sent + 1

\* requests.get(API_URL, params={"domain": domain}, ...) is sent
SendGet == requests_sent' = requests_sent + 1

\* The text input is edited: the script runs with run_check False.
EditDomain(d) ==
    /\ pc = "idle"
    /\ d # domain
    /\ domain' = d
    /\ run_check' = FALSE
    /\ FreshRun
    /\ screen' = <<>>
    /\ UNCHANGED <<pc, requests_sent, analyses>>

\* Mutant: the domain is not checked before the GET is sent.
ClickAnalyzeUnchecked ==
    /\ pc = "idle"
    /\ run_check' = TRUE
    /\ FreshRun
    /\ analyses < MaxRuns
    /\ analyses' = analyses + 1
    /\ SendGet
    /\ pc' = "fetching"
    /\ screen' = <<>>
    /\ UNCHANGED domain

\* The button is clicked: the script runs with run_check True, up to the
\* point where the GET is in flight (or to its end, for an empty domain).
ClickAnalyze ==
    /\ pc = "idle"
    /\ run_check' = TRUE
    /\ FreshRun
    /\ IF domain = ""
       THEN /\ screen' = <<[kind |-> "warning"]>>
            /\ UNCHANGED <<pc, domain, requests_sent, analyses>>
       ELSE /\ analyses < MaxRuns
            /\ analyses' = analyses + 1
            /\ SendGet
            /\ pc' = "fetching"
            /\ screen' = <<>>
            /\ UNCHANGED domain

\* The GET returns or fails, and the rest of the try block runs.
FetchReturns ==
    /\ pc = "fetching"
    /\ \E reply \in Replies :
        /\ wire' = reply
        /\ LET run == MainLogic(reply) IN
             /\ bound' = run.bound
             /\ data' = run.data
             /\ overview' = run.overview
             /\ countries_data' = run.countries_data
             /\ screen' = run.screen
    /\ pc' = "idle"
    /\ UNCHANGED <<domain, run_check, requests_sent, analyses>>

Next ==
    \/ \E d \in Domains : EditDomain(d)
    \/ ClickAnalyze
    \/ FetchReturns

Spec == Init /\ [][Next]_vars

(* ------------------------------- claims ------------------------------- *)
Indices(kind) == {i \in 1..Len(screen) : screen[i].kind = kind}

\* An 'analyze' action with a non-empty domain has run to its end.
Analyzed == run_check /\ domain # "" /\ pc = "idle"

\* The try block got past the KPI cards and the countries section.
Rendered == Analyzed /\ "countries_data" \in bound

OnlyFailureMessage ==
    /\ Len(screen) = 1
    /\ screen[1].kind = "error"
    /\ screen[1].prefix = "Failed to fetch data: "
    /\ screen[1].detail.detail =
         (IF wire.kind = "response" THEN wire.status ELSE wire.kind)

AbsentFields(body) ==
    \/ "summary" \notin DOMAIN body
    \/ "top_countries" \notin DOMAIN body
    \/ \E k \in SummaryKeys : k \notin DOMAIN body["summary"]

\* C2 as stated: a decoded response with any expected field absent never
\* leads to a failure message; the whole dashboard is rendered (success
\* message, seven KPI metrics, countries section).
C2_AbsentFieldsNeverFail ==
    (Analyzed /\ "data" \in bound /\ AbsentFields(data))
        => /\ Indices("error") = {}
           /\ Cardinality(Indices("success")) = 1
           /\ Cardinality(Indices("metric")) = 7
           /\ Cardinality(Indices("subheader")) = 1
           /\ Cardinality(Indices("dataframe") \cup Indices("info")) = 1

RECURSIVE Total(_)
Total(counts) ==
    IF counts = <<>> THEN 0 ELSE counts[1] + Total(Tail(counts))

InputCounts ==
    [i \in 1..Len(overview.top_countries) |-> overview.top_countries[i].count]

\* The precondition of C4 and C5: counts >= 0 with a positive total.
PositiveTotal ==
    /\ Rendered
    /\ \A i \in 1..Len(InputCounts) : InputCounts[i] >= 0
    /\ Total(InputCounts) > 0

\* C3: add_country_percentages returns the empty list whenever the counts
\* sum to 0 (the empty list, all counts 0, or counts cancelling out).
C3_ZeroTotalGivesEmpty ==
    (Rendered /\ Total(InputCounts) = 0) => countries_data = <<>>

C3_Witness ==
    /\ Rendered
    /\ Len(InputCounts) >= 2
    /\ Total(InputCounts) = 0
    /\ countries_data = <<>>
    /\ Indices("info") # {}

\* p is count / total * 100 rounded to 2 decimals (in hundredths): no
\* multiple of 0.01 is nearer, and of two equally near ones p is the even.
IsRounded(p, count, total) ==
    LET diff == p * total - count * 10000
        dist == IF diff < 0 THEN -diff ELSE diff
    IN /\ 2 * dist <= total
       /\ (2 * dist = total) => p % 2 = 0

\* C4: with counts >= 0 and total > 0 the output has one entry per input
\* entry, in input order, carrying that entry's country and its share of
\* the total as a percentage rounded to 2 decimals.
C4_PercentagesInOrder ==
    PositiveTotal =>
        /\ Len(countries_data) = Len(overview.top_countries)
        /\ \A i \in 1..Len(countries_data) :
            /\ countries_data[i].Country = overview.top_countries[i].country
            /\ IsRounded(countries_data[i].Percentage, InputCounts[i],
                         Total(InputCounts))

C4_Witness ==
    /\ PositiveTotal
    /\ Len(countries_data) = 3
    /\ countries_data[1].Country # countries_data[2].Country
    /\ InputCounts[1] # InputCounts[2]
    /\ countries_data[1].Percentage * Total(InputCounts)
         # InputCounts[1] * 10000

Percentages ==
    [i \in 1..Len(countries_data) |-> countries_data[i].Percentage]

\* C5: with counts >= 0 and total > 0 the percentages add up to 100 within
\* 0.02 per entry, and each lies in [0, 100].
C5_PercentagesSumTo100 ==
    PositiveTotal =>
        /\ Total(Percentages) - 10000 <= 2 * Len(Percentages)
        /\ 10000 - Total(Percentages) <= 2 * Len(Percentages)
        /\ \A i \in 1..Len(Percentages) :
            Percentages[i] >= 0 /\ Percentages[i] <= 10000

C5_Witness ==
    /\ PositiveTotal
    /\ Len(Percentages) = 3
    /\ Total(Percentages) # 10000
    /\ Indices("progress") # {}

FieldKey ==
    [domain |-> "target", rank |-> "rank", backlinks |-> "backlinks",
     backlinks_spam_score |-> "backlinks_spam_score",
     broken_backlinks |-> "broken_backlinks",
     broken_pages |-> "broken_pages", crawled_pages |-> "crawled_pages",
     external_links_count |-> "external_links_count"]

\* C6: each of the eight summary fields is the value under its key in
\* raw.summary when that key is there and null when it (or the summary) is
\* not; top_countries is raw.top_countries or the empty list; so {} gives
\* eight nulls and no country.
C6_OverviewDefaults ==
    "overview" \in bound =>
        /\ DOMAIN overview = DOMAIN FieldKey \cup {"top_countries"}
        /\ \A f \in DOMAIN FieldKey :
            IF "summary" \in DOMAIN data /\ FieldKey[f] \in DOMAIN data.summary
            THEN overview[f] = data.summary[FieldKey[f]]
            ELSE overview[f].t = "null"
        /\ IF "top_countries" \in DOMAIN data
           THEN overview.top_countries = data.top_countries
           ELSE Len(overview.top_countries) = 0
        /\ DOMAIN data = {} =>
            /\ \A f \in DOMAIN FieldKey : overview[f].t = "null"
            /\ Len(overview.top_countries) = 0

C6_Witness ==
    /\ Analyzed
    /\ "overview" \in bound
    /\ DOMAIN data = {}
    /\ \A f \in DOMAIN FieldKey : overview[f].t = "null"
    /\ Len(overview.top_countries) = 0

\* C7: every 'analyze' action with a non-empty domain has sent exactly one
\* GET, and what a run holds (data, overview, country percentages) comes
\* from the reply to its own GET, whatever earlier runs did.
C7_OneGetPerAnalyzeNoCache ==
    /\ requests_sent = analyses
    /\ "data" \in bound =>
        (wire.kind = "response" /\ wire.decodable /\ data = wire.body)
    /\ "overview" \in bound =>
        overview = extract_general_overview(wire.body)
    /\ "countries_data" \in bound =>
        countries_data
          = add_country_percentages(Get(wire.body, "top_countries", <<>>))

C7_Witness ==
    /\ Rendered
    /\ analyses = 2
    /\ requests_sent = 2
    /\ data = wire.body

BacklinksOf(body) == Get(body, "latest_backlinks", <<>>)

Without(body, key) == [k \in DOMAIN body \ {key} |-> body[k]]

ExpectedFirstSeen(entry) ==
    IF "first_seen" \notin DOMAIN entry THEN None
    ELSE IF entry.first_seen.v = "2023-05-01T00:00:00Z" THEN StrV("01-05-23")
    ELSE entry.first_seen

WithoutFirstSeen(body) ==
    IF "latest_backlinks" \notin DOMAIN body THEN body
    ELSE [body EXCEPT !.latest_backlinks =
            [j \in 1..Len(body.latest_backlinks) |->
                Without(body.latest_backlinks[j], "first_seen")]]

C10_EmptyDomainOnlyWarns ==
    /\ [](run_check /\ domain = ""
            => /\ pc = "idle"
               /\ wire = NoReply
               /\ bound = {}
               /\ Len(screen) = 1
               /\ screen[1].kind = "warning")
    /\ [][/\ requests_sent' # requests_sent
                => (run_check' /\ domain' # ""
                    /\ requests_sent' = requests_sent + 1)
          /\ (run_check' /\ domain' = "")
                => requests_sent' = requests_sent]_vars

C10_Witness ==
    /\ run_check
    /\ domain = ""
    /\ requests_sent = 1
    /\ Len(screen) = 1
    /\ screen[1].kind = "warning"

====
